---- MODULE Spec2Model ----
(***************************************************************************)
(* The prompt chain element (src/chain/chain/__init__.py): one execution   *)
(* of the executor `main` over one input frame, with the settings store,   *)
(* the hosted provider and the emitted frames.                             *)
(*                                                                         *)
(* Text is a sequence of word tokens ("Hello", " ", "{input}", ...).       *)
(* Python values that live in a frame's other_data are tagged records      *)
(* [type, val]; the running history list is an object on `heap`, and a     *)
(* frame that holds it holds a reference to it, as in Python.              *)
(*                                                                         *)
(* The routing element (src/routing/routing/__init__.py) and the           *)
(* conditional element (src/conditional/conditional/__init__.py) with      *)
(* their caches of compiled functions are modelled in SpecElements.        *)
(***************************************************************************)
EXTENDS Integers, Sequences, FiniteSets, TLC

\* ---------------------------------------------------------------- bounds
\* at most this many of the step model settings name a hosted provider
MaxCloud == 1
\* at most this many of the step prompt settings differ from their default
MaxNonDefault == 1

\* ------------------------------------------------------ program constants
NumStepsMin == 1
NumStepsMax == 10
\* step1_prompt .. step5_prompt are the prompt settings that exist
NumPromptSettings == 5
\* step1 .. step10 are the step outputs that exist
NumStepOutputs == 10
\* step1_api_key .. step3_api_key and step1_temperature .. step3_temperature
\* are the credential and temperature settings that exist
NumKeySettings == 3
\* temperature = temp_setting.value if temp_setting else 0.7, in tenths
DefaultTemperature == 7

\* -------------------------------------------------------------------- state
VARIABLES
    frame,            \* ctx.inputs.in1.value: [is_none, other_data]
    settings,         \* ctx.settings: [num_steps, prompt, model]
    pc,               \* where the executor stands
    error,            \* the exception propagated to the caller, "" when none
    input_text,       \* the extracted input text
    num_steps,        \* the executor's local num_steps
    step_num,         \* the loop variable
    heap,             \* the list objects: heap[r] is the content of list r
    step_outputs,     \* the reference the local step_outputs holds (0 before it is bound)
    previous_output,  \* Optional[str]
    current_input,
    prompt,
    model_value,
    step_output,
    emitted,          \* the frames yielded so far: <<[channel, step, other_data]>>
    calls,            \* the provider requests so far: <<[step, backend, prompt, raised, text]>>
    lookups,          \* the step indexes whose settings the executor has looked up
    suspended,        \* the executions of the host that are not running now
    fmt,              \* one call of format_prompt: its arguments and its result
    routing_cache,    \* routing: _routing_cache, the cache keys it holds
    condition_cache,  \* conditional: _condition_cache, the source texts it holds
    invocation,       \* the routing or conditional invocation under way, or the last one
    compiled          \* how often each cache key has been compiled successfully

\* the state of the routing and the conditional element
elements == <<routing_cache, condition_cache, invocation, compiled>>

\* the state of the chain element
chain == <<frame, settings, pc, error, input_text, num_steps, step_num, heap,
           step_outputs, previous_output, current_input, prompt, model_value,
           step_output, emitted, calls, lookups, suspended, fmt>>

vars == <<frame, settings, pc, error, input_text, num_steps, step_num, heap,
          step_outputs, previous_output, current_input, prompt, model_value,
          step_output, emitted, calls, lookups, suspended, fmt,
          routing_cache, condition_cache, invocation, compiled>>

\* ------------------------------------------------------------ Python values
StrV(t) == [type |-> "str", val |-> t]
IntV(n) == [type |-> "int", val |-> n]
BoolV(b) == [type |-> "bool", val |-> b]
ListV(s) == [type |-> "list", val |-> s]
DictV(f) == [type |-> "dict", val |-> f]
\* a reference to a list object on the heap
RefV(r) == [type |-> "listref", val |-> r]
PyNone == [type |-> "NoneType", val |-> <<>>]

\* Optional[str] of the executor's locals
NoText == [some |-> FALSE, text |-> <<>>]
Some(t) == [some |-> TRUE, text |-> t]

\* the empty dict
EmptyMap == [k \in {} |-> PyNone]

\* str(v)
PyStr(v) == IF v.type = "str" THEN v.val ELSE <<"None">>

\* d.get(k, default) on a dict value
Get(d, k, default) == IF k \in DOMAIN d.val THEN d.val[k] ELSE default

IsStr(v, t) == v.type = "str" /\ v.val = t

Whitespace == {" "}

\* mutant: the text is compared with "" without strip()
BlankNoStrip(t) == t = <<>>

\* not s.strip()
Blank(t) == \A i \in 1..Len(t) : t[i] \in Whitespace

Digits == <<"1", "2", "3", "4", "5", "6", "7", "8", "9", "10">>

\* mutant: a local step goes through the empty-result path
LocalMarkerAsNoOutput(n) == <<"[Step", Digits[n], "- no output]">>

\* f"[Step {step_num} output - requires LLM element]"
LocalMarker(n) == <<"[Step", Digits[n], "output - requires LLM element]">>

\* f"[Step {step_num} - no output]"
NoOutputMarker(n) == <<"[Step", Digits[n], "- no output]">>

\* ------------------------------------------------------------ format_prompt
RECURSIVE Replace(_, _, _)
\* str.replace(old, new) on token sequences, every occurrence, one pass
Replace(s, old, new) ==
    IF s = <<>> THEN <<>>
    ELSE (IF Head(s) = old THEN new ELSE <<Head(s)>>) \o Replace(Tail(s), old, new)

\* mutant: without a previous output the {previous} placeholder is left alone
format_promptKeepsPlaceholder(template, text, previous) ==
    LET p == Replace(template, "{input}", text)
    IN  IF previous.some /\ previous.text # <<>>
        THEN Replace(p, "{previous}", previous.text)
        ELSE p

format_prompt(template, text, previous) ==
    LET p == Replace(template, "{input}", text)
    IN  IF previous.some /\ previous.text # <<>>
        THEN Replace(p, "{previous}", previous.text)
        ELSE Replace(p, "{previous}", text)

\* ------------------------------------------------------- input extraction
RECURSIVE ItemsText(_)
\* the inner loop over a multimodal content list
ItemsText(items) ==
    IF items = <<>> THEN <<>>
    ELSE LET item == Head(items)
             here == IF item.type = "dict" /\ IsStr(Get(item, "type", PyNone), <<"text">>)
                     THEN Get(item, "text", StrV(<<>>)).val \o <<" ">>
                     ELSE <<>>
         IN  here \o ItemsText(Tail(items))

RECURSIVE ApiText(_)
\* the loop over the api message list
ApiText(msgs) ==
    IF msgs = <<>> THEN <<>>
    ELSE LET msg == Head(msgs)
             content == Get(msg, "content", StrV(<<>>))
             here == IF msg.type = "dict" /\ IsStr(Get(msg, "role", PyNone), <<"user">>)
                     THEN IF content.type = "str" THEN content.val \o <<" ">>
                          ELSE IF content.type = "list" THEN ItemsText(content.val)
                          ELSE <<>>
                     ELSE <<>>
         IN  here \o ApiText(Tail(msgs))

\* mutant: a blank "message" falls through to the "api" list
ExtractInputTextFallThrough(other_data) ==
    LET fromMessage == IF "message" \in DOMAIN other_data
                       THEN PyStr(other_data["message"]) ELSE <<>>
        fromApi == IF "api" \in DOMAIN other_data /\ other_data["api"].type = "list"
                   THEN ApiText(other_data["api"].val) ELSE <<>>
    IN  IF ~Blank(fromMessage) THEN fromMessage ELSE fromApi

\* the if / elif / else over "message" and "api"
ExtractInputText(other_data) ==
    IF "message" \in DOMAIN other_data THEN PyStr(other_data["message"])
    ELSE IF "api" \in DOMAIN other_data
         THEN IF other_data["api"].type = "list"
              THEN ApiText(other_data["api"].val)
              ELSE <<>>
         ELSE <<>>

\* ----------------------------------------------------------------- settings
\* the default of step{i}_prompt
DefaultPrompt(i) ==
    IF i = 1 THEN <<"Process", "the", "following:", "{input}">>
    ELSE <<"Continue", "with:", "{previous}">>

\* a template that uses both placeholders
BothTemplate == <<"{input}", "after", "{previous}">>

\* the steps whose prompt setting is also tried with BothTemplate
BothTemplateSteps == {1, 2}

PromptValues(i) ==
    {<<>>, DefaultPrompt(i)} \cup (IF i \in BothTemplateSteps THEN {BothTemplate} ELSE {})

\* valid_values of step{i}_model
ModelValues == {"local", "openai", "anthropic"}

PromptSteps == 1..NumPromptSettings

PromptSettings ==
    {p \in [PromptSteps -> UNION {PromptValues(i) : i \in PromptSteps}] :
        /\ \A i \in PromptSteps : p[i] \in PromptValues(i)
        /\ Cardinality({i \in PromptSteps : p[i] # DefaultPrompt(i)}) <= MaxNonDefault}

ModelSettings ==
    {m \in [PromptSteps -> ModelValues] :
        Cardinality({i \in PromptSteps : m[i] # "local"}) <= MaxCloud}

KeySteps == 1..NumKeySettings

\* step{i}_api_key: a configured credential per step (the default is "")
ApiKeySettings == {[i \in KeySteps |-> <<"sk", Digits[i]>>]}

\* step{i}_temperature in tenths: a configured value per step (the default is 0.7)
TemperatureSettings == {[i \in KeySteps |-> i]}

SettingsValues ==
    [num_steps : NumStepsMin..NumStepsMax, prompt : PromptSettings, model : ModelSettings,
     api_key : ApiKeySettings, temperature : TemperatureSettings]

\* mutant: a step without a credential setting uses the last one that exists
ApiKeyFromLastSetting(n) ==
    settings.api_key[IF n \in KeySteps THEN n ELSE NumKeySettings]

\* api_key_setting.value if api_key_setting else ""
ApiKey(n) == IF n \in KeySteps THEN settings.api_key[n] ELSE <<>>

\* temp_setting.value if temp_setting else 0.7
Temperature(n) == IF n \in KeySteps THEN settings.temperature[n] ELSE DefaultTemperature

\* mutant: only the setting's existence is tested, not its value
PromptConfiguredIgnoresValue(n) == n \in PromptSteps

\* getattr(ctx.settings, f"step{step_num}_prompt", None) exists and has a value
PromptConfigured(n) ==
    /\ n \in PromptSteps
    /\ settings.prompt[n] # <<>>

\* model.value if model else "local"
ModelValue(n) ==
    IF n \in PromptSteps THEN settings.model[n] ELSE "local"

\* mutant: the outputs are looked up from step2 on
StepOutputAttrOffByOne(n) == n \in 2..NumStepOutputs

\* getattr(ctx.outputs, f"step{step_num}", None)
StepOutputAttr(n) == n \in 1..NumStepOutputs

\* ------------------------------------------------------------- input frames
ApiUserHi == ListV(<<DictV([role |-> StrV(<<"user">>), content |-> StrV(<<"Hi">>)])>>)

ApiMultimodal ==
    ListV(<<DictV([role |-> StrV(<<"system">>), content |-> StrV(<<"Be", "brief">>)]),
            DictV([role |-> StrV(<<"user">>), content |-> StrV(<<"Hi">>)]),
            DictV([role |-> StrV(<<"user">>),
                   content |-> ListV(<<DictV([type |-> StrV(<<"text">>), text |-> StrV(<<"a">>)]),
                                       DictV([type |-> StrV(<<"image">>)]),
                                       DictV([type |-> StrV(<<"text">>), text |-> StrV(<<"b">>)])>>)])>>)

ApiNotAList == StrV(<<"Hi">>)

\* other_data that already holds chain keys, as left by an upstream element
UpstreamChainData ==
    [message |-> StrV(<<"Hello">>),
     chain_step |-> IntV(7),
     chain_output |-> StrV(<<"stale">>),
     chain_final_output |-> StrV(<<"stale">>)]

NoneFrame == [is_none |-> TRUE, other_data |-> EmptyMap]

FrameOf(d) == [is_none |-> FALSE, other_data |-> d]

InputFrames ==
    { NoneFrame,
      FrameOf(EmptyMap),
      FrameOf([source |-> StrV(<<"cam">>)]),
      FrameOf([message |-> StrV(<<"Hello">>)]),
      FrameOf(UpstreamChainData),
      FrameOf([message |-> StrV(<<>>), source |-> StrV(<<"cam">>)]),
      FrameOf([message |-> StrV(<<" ">>), api |-> ApiUserHi]),
      FrameOf([message |-> PyNone]),
      FrameOf([api |-> ApiMultimodal, source |-> StrV(<<"cam">>)]),
      FrameOf([api |-> ApiNotAList]),
      FrameOf([api |-> ListV(<<>>)]) }

\* ------------------------------------------------------------------ provider
\* how one request to the hosted provider ends
Response == <<"summary">>

Outcomes ==
    { [raises |-> "ImportError", text |-> <<>>],
      [raises |-> "Exception", text |-> <<>>],
      [raises |-> "", text |-> <<>>],
      [raises |-> "", text |-> <<" ">>],
      [raises |-> "", text |-> Response] }

\* call_llm(prompt, model, api_key, temperature, ctx, step_num), given how the
\* provider request ends
call_llm(model, outcome) ==
    IF model = "local" THEN <<>>
    ELSE IF model \in {"openai", "anthropic"}
         THEN IF outcome.raises # "" THEN <<>> ELSE outcome.text
         ELSE <<>>

\* ------------------------------------------- routing and conditional: data
\* (src/routing/routing/__init__.py, src/conditional/conditional/__init__.py)
\* A string the routing function returns is a sequence of characters.
NumOutputsMin == 2
NumOutputsMax == 10
\* route1 .. route10 are the outputs of the routing element
NumRouteOutputs == 10

\* a float value
FloatV(x) == [type |-> "float", val |-> x]

\* an object whose __bool__ raises
BadBoolV == [type |-> "object", val |-> "__bool__ raises"]

WhitespaceChars == {" ", "\t", "\n"}

DigitChars == <<"0", "1", "2", "3", "4", "5", "6", "7", "8", "9">>

IsDigit(c) == \E i \in 1..Len(DigitChars) : DigitChars[i] = c

DigitValue(c) == (CHOOSE i \in 1..Len(DigitChars) : DigitChars[i] = c) - 1

\* str.lower() on one character
LowerChar(c) ==
    CASE c = "R" -> "r"
      [] c = "O" -> "o"
      [] c = "U" -> "u"
      [] c = "T" -> "t"
      [] c = "E" -> "e"
      [] c = "A" -> "a"
      [] OTHER -> c

\* str.lower()
Lower(s) == [i \in 1..Len(s) |-> LowerChar(s[i])]

RECURSIVE LStrip(_)
LStrip(s) == IF s # <<>> /\ Head(s) \in WhitespaceChars THEN LStrip(Tail(s)) ELSE s

RECURSIVE RStrip(_)
RStrip(s) ==
    IF s # <<>> /\ s[Len(s)] \in WhitespaceChars THEN RStrip(SubSeq(s, 1, Len(s) - 1)) ELSE s

\* str.strip()
Strip(s) == RStrip(LStrip(s))

\* str.startswith(prefix)
StartsWith(s, prefix) == Len(s) >= Len(prefix) /\ SubSeq(s, 1, Len(prefix)) = prefix

\* s[k:]
SliceFrom(s, k) == SubSeq(s, k + 1, Len(s))

RECURSIVE DigitsValue(_)
\* the number a run of digits and underscores denotes
DigitsValue(s) ==
    IF s = <<>> THEN 0
    ELSE IF s[Len(s)] = "_" THEN DigitsValue(SubSeq(s, 1, Len(s) - 1))
    ELSE 10 * DigitsValue(SubSeq(s, 1, Len(s) - 1)) + DigitValue(s[Len(s)])

\* int(s) for a str: surrounding whitespace is ignored, then an optional
\* sign, then digits with single underscores between them; anything else
\* raises ValueError (ok = FALSE)
ParseInt(s) ==
    LET t == Strip(s)
        signed == t # <<>> /\ Head(t) \in {"+", "-"}
        body == IF signed THEN Tail(t) ELSE t
        wellFormed ==
            /\ body # <<>>
            /\ \A i \in 1..Len(body) : IsDigit(body[i]) \/ body[i] = "_"
            /\ IsDigit(body[1])
            /\ IsDigit(body[Len(body)])
            /\ \A i \in 1..(Len(body) - 1) : ~(body[i] = "_" /\ body[i + 1] = "_")
    IN  IF wellFormed
        THEN [ok |-> TRUE,
              val |-> IF signed /\ Head(t) = "-" THEN 0 - DigitsValue(body) ELSE DigitsValue(body)]
        ELSE [ok |-> FALSE, val |-> 0]

\* f"route{k}"
RouteNames == <<"route1", "route2", "route3", "route4", "route5",
                "route6", "route7", "route8", "route9", "route10">>

RouteName(k) == IF k \in 1..Len(RouteNames) THEN RouteNames[k] ELSE "route?"

\* isinstance(route_value, int): bool is a subclass of int
IsInstanceInt(v) == v.type \in {"int", "bool"}

\* the integer an int or bool value is
IntValue(v) == IF v.type = "bool" THEN (IF v.val THEN 1 ELSE 0) ELSE v.val

\* mutant: a recognised number outside the range keeps its own route
normalize_route_identifierUnclamped(route_value, num_outputs) ==
    IF route_value.type = "str"
    THEN LET route_str == Strip(Lower(route_value.val))
             suffix == IF StartsWith(route_str, <<"r", "o", "u", "t", "e">>)
                       THEN ParseInt(SliceFrom(route_str, 5))
                       ELSE [ok |-> FALSE, val |-> 0]
             whole == ParseInt(route_str)
         IN  IF suffix.ok /\ 1 <= suffix.val /\ suffix.val <= num_outputs
             THEN RouteName(suffix.val)
             ELSE IF whole.ok /\ 1 <= whole.val /\ whole.val <= num_outputs
             THEN RouteName(whole.val)
             ELSE "route1"
    ELSE IF IsInstanceInt(route_value)
    THEN IF IntValue(route_value) < 1 THEN "route1" ELSE RouteName(IntValue(route_value))
    ELSE "route1"

\* normalize_route_identifier: str first, then int (which bool is), then bool
normalize_route_identifier(route_value, num_outputs) ==
    IF route_value.type = "str"
    THEN LET route_str == Strip(Lower(route_value.val))
             suffix == IF StartsWith(route_str, <<"r", "o", "u", "t", "e">>)
                       THEN ParseInt(SliceFrom(route_str, 5))
                       ELSE [ok |-> FALSE, val |-> 0]
             whole == ParseInt(route_str)
         IN  IF suffix.ok /\ 1 <= suffix.val /\ suffix.val <= num_outputs
             THEN RouteName(suffix.val)
             ELSE IF whole.ok /\ 1 <= whole.val /\ whole.val <= num_outputs
             THEN RouteName(whole.val)
             ELSE "route1"
    ELSE IF IsInstanceInt(route_value)
    THEN IF 1 <= IntValue(route_value) /\ IntValue(route_value) <= num_outputs
         THEN RouteName(IntValue(route_value))
         ELSE IF IntValue(route_value) < 1 THEN "route1" ELSE RouteName(num_outputs)
    ELSE IF route_value.type = "bool"
    THEN IF num_outputs >= 2 THEN (IF route_value.val THEN "route1" ELSE "route2") ELSE "route1"
    ELSE "route1"

\* bool(result)
Truthy(v) ==
    CASE v.type = "bool" -> v.val
      [] v.type = "int" -> v.val # 0
      [] v.type = "float" -> v.val # 0
      [] v.type \in {"str", "list"} -> v.val # <<>>
      [] v.type = "NoneType" -> FALSE
      [] OTHER -> TRUE

\* the strings a routing function is made to return
RouteStrings ==
    { <<"r", "o", "u", "t", "e", "1">>,
      <<"R", "o", "u", "t", "e", "2", " ">>,
      <<" ", "R", "O", "U", "T", "E", "1", "0">>,
      <<"r", "o", "u", "t", "e", "1", "1">>,
      <<"r", "o", "u", "t", "e", "0">>,
      <<"r", "o", "u", "t", "e">>,
      <<"r", "o", "u", "t", "e", "x">>,
      <<"r", "o", "u", "t", "e", " ", "2">>,
      <<"r", "o", "u", "t", "e", "-", "1">>,
      <<"r", "o", "u", "t", "e", "1", "_", "0">>,
      <<"r", "o", "u", "t", "e", "_", "3">>,
      <<"3">>,
      <<" ", "2", "\n">>,
      <<"1", "2">>,
      <<"-", "1">>,
      <<"+", "3">>,
      <<>>,
      <<"a", "b", "c">> }

\* the values a routing function is made to return
RouteValues ==
    {StrV(t) : t \in RouteStrings}
        \cup {IntV(k) : k \in (0 - 1)..(NumOutputsMax + 1)}
        \cup {BoolV(TRUE), BoolV(FALSE), PyNone, FloatV(2), ListV(<<>>)}

\* the values a condition function is made to return
ConditionValues ==
    {BoolV(TRUE), BoolV(FALSE), IntV(0), IntV(3), StrV(<<>>), StrV(<<"n", "o">>),
     PyNone, ListV(<<>>), ListV(<<IntV(0)>>), FloatV(0), BadBoolV}

\* what calling the compiled function does: it returns a value or raises
Returned(values) == [raises : {FALSE}, value : values] \cup {[raises |-> TRUE, value |-> PyNone]}

\* num_outputs values within [min_value, max_value]
NumOutputsValues == {NumOutputsMin, NumOutputsMin + 1, NumOutputsMax}

\* the source texts of the routing_function / condition settings; the body
\* is placed after "def route(frame):" / "def evaluate(frame):" and four
\* spaces, so the lines after the first stand at module level
SourceTexts ==
    { "return 1",
      "return frame.other_data.get('value', 0) == 10",
      "return (",
      "pass\ndel route",
      "pass\ndel evaluate",
      "pass\nimport no_such_module" }

\* how compile_routing_function / compile_condition_function end for a text:
\* they return the function, raise SyntaxError (compile), raise ValueError
\* (the function is not in the namespace), or let the exception of a
\* module-level statement through (exec)
CompileOutcome(function_name, code) ==
    CASE code = "return (" -> "SyntaxError"
      [] code = "pass\ndel route" ->
            IF function_name = "route" THEN "ValueError" ELSE "NameError"
      [] code = "pass\ndel evaluate" ->
            IF function_name = "evaluate" THEN "ValueError" ELSE "NameError"
      [] code = "pass\nimport no_such_module" -> "ModuleNotFoundError"
      [] OTHER -> "function"

\* the frames the two elements are given
ElementFrames == {NoneFrame, FrameOf([value |-> IntV(10)])}

\* cache_key = f"{routing_code}:{num_outputs}"
RoutingKey(code, n) == <<code, ":", n>>

RoutingKeys == {RoutingKey(code, n) : code \in SourceTexts, n \in NumOutputsValues}

\* no invocation yet
NoInvocation ==
    [element |-> "", pc |-> "idle", frame |-> NoneFrame, code |-> "", num_outputs |-> 0,
     result |-> PyNone, route_id |-> "", emitted |-> <<>>, error |-> "", raised_at |-> ""]

\* the two elements before their first invocation
ElementsIdle ==
    /\ routing_cache = {}
    /\ condition_cache = {}
    /\ invocation = NoInvocation
    /\ compiled = [routing |-> [k \in RoutingKeys |-> 0],
                   conditional |-> [c \in SourceTexts |-> 0]]

\* --------------------------------------------------------------------- Init
\* no call of format_prompt is under study
NoFormatCall == [template |-> <<>>, text |-> <<>>, previous |-> NoText,
                 result |-> <<>>, applied |-> FALSE]

Init ==
    /\ frame \in InputFrames
    /\ settings \in SettingsValues
    /\ pc = "start"
    /\ error = ""
    /\ input_text = <<>>
    /\ num_steps = 0
    /\ step_num = 0
    /\ heap = <<>>
    /\ step_outputs = 0
    /\ previous_output = NoText
    /\ current_input = <<>>
    /\ prompt = <<>>
    /\ model_value = ""
    /\ step_output = <<>>
    /\ emitted = <<>>
    /\ calls = <<>>
    /\ lookups = {}
    /\ suspended = <<>>
    /\ fmt = NoFormatCall
    /\ ElementsIdle

\* num_steps values a settings store that does not enforce min_value and
\* max_value can supply
SuppliedNumSteps == (NumStepsMin - 2)..(NumStepsMax + 2)

InitWide ==
    /\ frame \in InputFrames
    /\ settings \in [num_steps : SuppliedNumSteps, prompt : PromptSettings,
                      model : ModelSettings,
                      api_key : ApiKeySettings, temperature : TemperatureSettings]
    /\ pc = "start"
    /\ error = ""
    /\ input_text = <<>>
    /\ num_steps = 0
    /\ step_num = 0
    /\ heap = <<>>
    /\ step_outputs = 0
    /\ previous_output = NoText
    /\ current_input = <<>>
    /\ prompt = <<>>
    /\ model_value = ""
    /\ step_output = <<>>
    /\ emitted = <<>>
    /\ calls = <<>>
    /\ lookups = {}
    /\ suspended = <<>>
    /\ fmt = NoFormatCall
    /\ ElementsIdle

\* ------------------------------------------------------------------ actions
\* the local variables no step of the loop has touched
LoopLocalsUnchanged ==
    UNCHANGED <<num_steps, step_num, heap, step_outputs, previous_output,
                current_input, prompt, model_value, step_output>>

\* frame is None: log, raise Exception, the handler logs again and re-raises
ReceiveNone ==
    /\ pc = "start"
    /\ frame.is_none
    /\ pc' = "raised"
    /\ error' = "Exception"
    /\ LoopLocalsUnchanged
    /\ UNCHANGED <<elements, fmt, suspended, lookups, frame, settings, input_text, emitted, calls>>

\* the extracted text is blank: raise ValueError
RejectEmptyInput ==
    /\ pc = "start"
    /\ ~frame.is_none
    /\ Blank(ExtractInputText(frame.other_data))
    /\ input_text' = ExtractInputText(frame.other_data)
    /\ pc' = "raised"
    /\ error' = "ValueError"
    /\ LoopLocalsUnchanged
    /\ UNCHANGED <<elements, fmt, suspended, lookups, frame, settings, emitted, calls>>

\* mutant: the history is one list kept across executions
BeginChainSharedHistory ==
    /\ pc = "start"
    /\ ~frame.is_none
    /\ ~Blank(ExtractInputText(frame.other_data))
    /\ input_text' = ExtractInputText(frame.other_data)
    /\ num_steps' = settings.num_steps
    /\ heap' = IF heap = <<>> THEN <<<<>>>> ELSE heap
    /\ step_outputs' = 1
    /\ previous_output' = NoText
    /\ current_input' = input_text'
    /\ step_num' = 1
    /\ pc' = "loop"
    /\ UNCHANGED <<elements, fmt, suspended, lookups, frame, settings, error, prompt, model_value, step_output, emitted, calls>>

\* the text is there: read num_steps, bind the locals, enter the loop
BeginChain ==
    /\ pc = "start"
    /\ ~frame.is_none
    /\ ~Blank(ExtractInputText(frame.other_data))
    /\ input_text' = ExtractInputText(frame.other_data)
    /\ num_steps' = settings.num_steps
    /\ heap' = Append(heap, <<>>)
    /\ step_outputs' = Len(heap) + 1
    /\ previous_output' = NoText
    /\ current_input' = input_text'
    /\ step_num' = 1
    /\ pc' = "loop"
    /\ UNCHANGED <<elements, fmt, suspended, lookups, frame, settings, error, prompt, model_value, step_output, emitted, calls>>

\* mutant: the range runs one index too far
LoopHasNextOffByOne == step_num <= num_steps + 1

\* for step_num in range(1, num_steps + 1): there is a next index
LoopHasNext == step_num <= num_steps

\* range(1, num_steps + 1) is exhausted
LoopExit ==
    /\ pc = "loop"
    /\ ~LoopHasNext
    /\ pc' = "final"
    /\ UNCHANGED <<elements, fmt, suspended, lookups, frame, settings, error, input_text, num_steps, step_num, heap,
                   step_outputs, previous_output, current_input, prompt, model_value,
                   step_output, emitted, calls>>

\* mutant: the loop waits at the unconfigured step instead of breaking
HaltUnconfiguredWaits ==
    /\ pc = "loop"
    /\ LoopHasNext
    /\ ~PromptConfigured(step_num)
    /\ pc' = "loop"
    /\ lookups' = lookups \cup {step_num}
    /\ UNCHANGED <<elements, fmt, suspended, frame, settings, error, input_text, num_steps, step_num, heap,
                   step_outputs, previous_output, current_input, prompt, model_value,
                   step_output, emitted, calls>>

\* mutant: the unconfigured step is skipped and the loop continues
HaltUnconfiguredContinues ==
    /\ pc = "loop"
    /\ LoopHasNext
    /\ ~PromptConfigured(step_num)
    /\ step_num' = step_num + 1
    /\ pc' = "loop"
    /\ lookups' = lookups \cup {step_num}
    /\ UNCHANGED <<elements, fmt, suspended, frame, settings, error, input_text, num_steps, heap,
                   step_outputs, previous_output, current_input, prompt, model_value,
                   step_output, emitted, calls>>

\* the step's prompt is missing or empty: log and break
HaltUnconfigured ==
    /\ pc = "loop"
    /\ LoopHasNext
    /\ ~PromptConfigured(step_num)
    /\ pc' = "final"
    /\ lookups' = lookups \cup {step_num}
    /\ UNCHANGED <<elements, fmt, suspended, frame, settings, error, input_text, num_steps, step_num, heap,
                   step_outputs, previous_output, current_input, prompt, model_value,
                   step_output, emitted, calls>>

\* resolve the step's settings and format its prompt; a local step gets its
\* placeholder output here, a hosted one goes on to call_llm
PrepareStep ==
    /\ pc = "loop"
    /\ LoopHasNext
    /\ PromptConfigured(step_num)
    /\ model_value' = ModelValue(step_num)
    /\ prompt' = format_prompt(settings.prompt[step_num], current_input, previous_output)
    /\ IF model_value' = "local"
       THEN /\ step_output' = LocalMarker(step_num)
            /\ pc' = "record"
       ELSE /\ step_output' = step_output
            /\ pc' = "call"
    /\ lookups' = lookups \cup {step_num}
    /\ UNCHANGED <<elements, fmt, suspended, frame, settings, error, input_text, num_steps, step_num, heap,
                   step_outputs, previous_output, current_input, emitted, calls>>

\* mutant: the empty result is kept
OrNoOutputKeepsEmpty(result, n) == result

\* if not step_output: step_output = f"[Step {step_num} - no output]"
OrNoOutput(result, n) == IF result = <<>> THEN NoOutputMarker(n) ELSE result

\* mutant: the provider's exception is not caught
CallProviderUncaught(outcome) ==
    /\ pc = "call"
    /\ calls' = Append(calls, [step |-> step_num, backend |-> model_value,
                               prompt |-> prompt,
                               api_key |-> ApiKey(step_num),
                               temperature |-> Temperature(step_num),
                               raised |-> outcome.raises # "", text |-> outcome.text])
    /\ IF outcome.raises # ""
       THEN /\ pc' = "raised"
            /\ error' = outcome.raises
            /\ step_output' = step_output
       ELSE /\ pc' = "record"
            /\ error' = error
            /\ step_output' = OrNoOutput(outcome.text, step_num)
    /\ UNCHANGED <<elements, fmt, suspended, lookups, frame, settings, input_text, num_steps, step_num, heap,
                   step_outputs, previous_output, current_input, prompt, model_value,
                   emitted>>

\* mutant: a request that raised is issued again
CallProviderRetries(outcome) ==
    /\ pc = "call"
    /\ calls' = Append(calls, [step |-> step_num, backend |-> model_value,
                               prompt |-> prompt,
                               api_key |-> ApiKey(step_num),
                               temperature |-> Temperature(step_num),
                               raised |-> outcome.raises # "", text |-> outcome.text])
    /\ IF outcome.raises # ""
       THEN /\ pc' = "call"
            /\ step_output' = step_output
       ELSE /\ pc' = "record"
            /\ step_output' = OrNoOutput(outcome.text, step_num)
    /\ UNCHANGED <<elements, fmt, suspended, lookups, frame, settings, error, input_text, num_steps,
                   step_num, heap, step_outputs, previous_output, current_input, prompt,
                   model_value, emitted>>

\* step_output = await call_llm(...); an empty result becomes the no-output marker
CallProvider(outcome) ==
    /\ pc = "call"
    /\ calls' = Append(calls, [step |-> step_num, backend |-> model_value,
                               prompt |-> prompt,
                               api_key |-> ApiKey(step_num),
                               temperature |-> Temperature(step_num),
                               raised |-> outcome.raises # "", text |-> outcome.text])
    /\ step_output' = OrNoOutput(call_llm(model_value, outcome), step_num)
    /\ pc' = "record"
    /\ UNCHANGED <<elements, fmt, suspended, lookups, frame, settings, error, input_text, num_steps, step_num, heap,
                   step_outputs, previous_output, current_input, prompt, model_value,
                   emitted>>

\* the record appended to step_outputs
StepRecord ==
    [step |-> step_num, prompt |-> prompt, output |-> step_output, model |-> model_value]

\* the value stored under "chain_history": the list step_outputs itself
HistoryValue == RefV(step_outputs)

\* mutant: chain_output carries the step's input instead of its output
StepOverlayStaleOutput ==
    [chain_step |-> IntV(step_num),
     chain_output |-> StrV(current_input),
     chain_prompt |-> StrV(prompt),
     chain_model |-> StrV(<<model_value>>),
     chain_history |-> HistoryValue]

\* the dict given to step_frame_data.update(...)
StepOverlay ==
    [chain_step |-> IntV(step_num),
     chain_output |-> StrV(step_output),
     chain_prompt |-> StrV(prompt),
     chain_model |-> StrV(<<model_value>>),
     chain_history |-> HistoryValue]

\* mutant: chain_steps counts the steps that ran
FinalOverlayStepsRun ==
    [chain_final_output |-> StrV(IF previous_output.some /\ previous_output.text # <<>>
                                 THEN previous_output.text ELSE input_text),
     chain_steps |-> IntV(Len(heap[step_outputs])),
     chain_history |-> HistoryValue,
     chain_complete |-> BoolV(TRUE)]

\* the dict given to final_output_data.update(...)
FinalOverlay ==
    [chain_final_output |-> StrV(IF previous_output.some /\ previous_output.text # <<>>
                                 THEN previous_output.text ELSE input_text),
     chain_steps |-> IntV(num_steps),
     chain_history |-> HistoryValue,
     chain_complete |-> BoolV(TRUE)]

\* mutant: the input's keys win over the overlay
ProjectInputWins(other_data, overlay) == other_data @@ overlay

\* frame.other_data.copy() followed by update(overlay)
Project(other_data, overlay) == overlay @@ other_data

\* mutant: the list is rebound to the newest record
ListAppendRebinds(l, x) == <<x>>

\* list.append
ListAppend(l, x) == Append(l, x)

\* the identity of the input frame's other_data dict
InputDict == 0

\* the identity of the dict frame.other_data.copy() returns: a new object,
\* numbered by the emission it is made for
NewDict == Len(emitted) + 1

\* mutant: the step frame's data is the input frame's dict itself, updated
\* in place
RecordAndYieldStepInPlace ==
    /\ pc = "record"
    /\ heap' = [heap EXCEPT ![step_outputs] = ListAppend(@, StepRecord)]
    /\ frame' = [frame EXCEPT !.other_data = Project(@, StepOverlay)]
    /\ emitted' = Append([j \in 1..Len(emitted) |->
                              IF emitted[j].data = InputDict
                              THEN [emitted[j] EXCEPT !.other_data = Project(@, StepOverlay)]
                              ELSE emitted[j]],
                          [channel |-> "step", index |-> step_num, data |-> InputDict,
                           other_data |-> Project(frame.other_data, StepOverlay)])
    /\ pc' = "yielded"
    /\ UNCHANGED <<elements, fmt, suspended, lookups, settings, error, input_text, num_steps, step_num, step_outputs,
                   previous_output, current_input, prompt, model_value, step_output, calls>>

\* mutant: the record is appended and the loop goes on to the next step
\* without handing the step frame to the caller
RecordAndYieldStepDeferred ==
    /\ pc = "record"
    /\ heap' = [heap EXCEPT ![step_outputs] = ListAppend(@, StepRecord)]
    /\ previous_output' = Some(step_output)
    /\ current_input' = step_output
    /\ step_num' = step_num + 1
    /\ pc' = "loop"
    /\ UNCHANGED <<elements, fmt, suspended, lookups, frame, settings, error, input_text, num_steps, step_outputs,
                   prompt, model_value, step_output, emitted, calls>>

\* step_outputs.append(...), then the step frame is built and yielded
RecordAndYieldStep ==
    /\ pc = "record"
    /\ heap' = [heap EXCEPT ![step_outputs] = ListAppend(@, StepRecord)]
    /\ emitted' = IF StepOutputAttr(step_num)
                  THEN Append(emitted, [channel |-> "step", index |-> step_num,
                                        data |-> NewDict,
                                        other_data |-> Project(frame.other_data, StepOverlay)])
                  ELSE emitted
    /\ pc' = "yielded"
    /\ UNCHANGED <<elements, fmt, suspended, lookups, frame, settings, error, input_text, num_steps, step_num, step_outputs,
                   previous_output, current_input, prompt, model_value, step_output, calls>>

\* mutant: the next step is rendered from the original input text again
ResumeAfterStepKeepsInput ==
    /\ pc = "yielded"
    /\ previous_output' = Some(step_output)
    /\ current_input' = input_text
    /\ step_num' = step_num + 1
    /\ pc' = "loop"
    /\ UNCHANGED <<elements, fmt, suspended, lookups, frame, settings, error, input_text, num_steps, heap, step_outputs,
                   prompt, model_value, step_output, emitted, calls>>

\* the caller resumes the generator: update for the next step
ResumeAfterStep ==
    /\ pc = "yielded"
    /\ previous_output' = Some(step_output)
    /\ current_input' = step_output
    /\ step_num' = step_num + 1
    /\ pc' = "loop"
    /\ UNCHANGED <<elements, fmt, suspended, lookups, frame, settings, error, input_text, num_steps, heap, step_outputs,
                   prompt, model_value, step_output, emitted, calls>>

\* the final frame is built and yielded
YieldFinal ==
    /\ pc = "final"
    /\ emitted' = Append(emitted, [channel |-> "final", index |-> 0,
                                   data |-> NewDict,
                                   other_data |-> Project(frame.other_data, FinalOverlay)])
    /\ pc' = "done"
    /\ UNCHANGED <<elements, fmt, suspended, lookups, frame, settings, error, input_text, num_steps, step_num, heap,
                   step_outputs, previous_output, current_input, prompt, model_value,
                   step_output, calls>>

Next ==
    \/ ReceiveNone
    \/ RejectEmptyInput
    \/ BeginChain
    \/ LoopExit
    \/ HaltUnconfigured
    \/ PrepareStep
    \/ \E outcome \in Outcomes : CallProvider(outcome)
    \/ RecordAndYieldStep
    \/ ResumeAfterStep
    \/ YieldFinal

Spec == Init /\ [][Next]_vars

\* the executor under any supplied num_steps
SpecWide == InitWide /\ [][Next]_vars

\* ------------------------------------------- two executions under one host
\* The host runs main once per input frame. Each run is a generator with its
\* own locals; ctx (the settings) and the interpreter's heap are common to
\* both. The variables hold the locals of the run that has the processor,
\* `suspended` those of the other run.
MaxHostSteps == 2

\* the input frames of the first run
HostFrames ==
    { NoneFrame,
      FrameOf(EmptyMap),
      FrameOf([message |-> StrV(<<"Hello">>)]),
      FrameOf([api |-> ApiUserHi, source |-> StrV(<<"cam">>)]) }

\* the input frames of the second run
SecondFrames ==
    { FrameOf([message |-> StrV(<<"Hello">>)]),
      FrameOf([api |-> ApiUserHi, source |-> StrV(<<"cam">>)]) }

\* ctx.settings of both runs: at most one setting differs from its default,
\* and the settings of steps the bounded chain never reaches stay at theirs
HostSettings ==
    {st \in [num_steps : NumStepsMin..MaxHostSteps, prompt : PromptSettings,
             model : ModelSettings,
             api_key : ApiKeySettings, temperature : TemperatureSettings] :
        /\ \A i \in PromptSteps :
              i > MaxHostSteps => (st.prompt[i] = DefaultPrompt(i) /\ st.model[i] = "local")
        /\ Cardinality({i \in PromptSteps : st.prompt[i] # DefaultPrompt(i)})
              + Cardinality({i \in PromptSteps : st.model[i] # "local"}) <= 1}

\* where a run can be when the host gives the processor to the other one:
\* not started, at the head of the loop (after the awaits of lines 368 and
\* 377), suspended at the yield of a step frame, ended
SwitchPoints == {"start", "loop", "yielded", "done", "raised"}

\* the locals of a run that has not started, for input frame f
FreshRun(f) ==
    [frame |-> f, pc |-> "start", error |-> "", input_text |-> <<>>, num_steps |-> 0,
     step_num |-> 0, step_outputs |-> 0, previous_output |-> NoText,
     current_input |-> <<>>, prompt |-> <<>>, model_value |-> "", step_output |-> <<>>,
     emitted |-> <<>>, calls |-> <<>>, lookups |-> {}]

\* the locals of the run that has the processor
RunningRun ==
    [frame |-> frame, pc |-> pc, error |-> error, input_text |-> input_text,
     num_steps |-> num_steps, step_num |-> step_num, step_outputs |-> step_outputs,
     previous_output |-> previous_output, current_input |-> current_input,
     prompt |-> prompt, model_value |-> model_value, step_output |-> step_output,
     emitted |-> emitted, calls |-> calls, lookups |-> lookups]

InitHost ==
    /\ frame \in HostFrames
    /\ settings \in HostSettings
    /\ suspended \in {<<FreshRun(f)>> : f \in SecondFrames}
    /\ pc = "start"
    /\ error = ""
    /\ input_text = <<>>
    /\ num_steps = 0
    /\ step_num = 0
    /\ heap = <<>>
    /\ step_outputs = 0
    /\ previous_output = NoText
    /\ current_input = <<>>
    /\ prompt = <<>>
    /\ model_value = ""
    /\ step_output = <<>>
    /\ emitted = <<>>
    /\ calls = <<>>
    /\ lookups = {}
    /\ fmt = NoFormatCall
    /\ ElementsIdle

\* the host gives the processor to the other run
Switch ==
    /\ suspended # <<>>
    /\ pc \in SwitchPoints
    /\ suspended[1].pc \notin {"done", "raised"}
    /\ suspended' = <<RunningRun>>
    /\ frame' = suspended[1].frame
    /\ pc' = suspended[1].pc
    /\ error' = suspended[1].error
    /\ input_text' = suspended[1].input_text
    /\ num_steps' = suspended[1].num_steps
    /\ step_num' = suspended[1].step_num
    /\ step_outputs' = suspended[1].step_outputs
    /\ previous_output' = suspended[1].previous_output
    /\ current_input' = suspended[1].current_input
    /\ prompt' = suspended[1].prompt
    /\ model_value' = suspended[1].model_value
    /\ step_output' = suspended[1].step_output
    /\ emitted' = suspended[1].emitted
    /\ calls' = suspended[1].calls
    /\ lookups' = suspended[1].lookups
    /\ UNCHANGED <<elements, fmt, settings, heap>>

NextHost == Next \/ Switch

SpecHost == InitHost /\ [][NextHost]_vars

\* ------------------------------------- a consumer that changes what it gets
\* The caller holds the frame it was handed last; before it resumes the
\* generator it may add, remove or rebind a top-level key of that frame's
\* other_data. The dict it changes is an object: every frame that holds the
\* same object shows the change.
AddKey(d) == [key \in DOMAIN d \cup {"seen"} |-> IF key = "seen" THEN BoolV(TRUE) ELSE d[key]]

RemoveKey(d) == [key \in DOMAIN d \ {"chain_history"} |-> d[key]]

RebindKey(d) == [key \in DOMAIN d |-> IF key = "chain_history" THEN PyNone ELSE d[key]]

\* the consumer has not changed this dict yet
Untouched(d) ==
    /\ "seen" \notin DOMAIN d
    /\ "chain_history" \in DOMAIN d
    /\ d.chain_history.type = "listref"

\* the content of dict d after the consumer's change
Changed(d, kind) ==
    CASE kind = "add" -> AddKey(d)
      [] kind = "remove" -> RemoveKey(d)
      [] kind = "rebind" -> RebindKey(d)

\* the emitted frames after the change was applied to dict object o: every
\* frame that holds o shows it
Rebound(o, kind) ==
    [j \in 1..Len(emitted) |->
        IF emitted[j].data = o
        THEN [emitted[j] EXCEPT !.other_data = Changed(@, kind)]
        ELSE emitted[j]]

\* the consumer changes the dict of the frame it holds
ConsumerChanges(kind) ==
    /\ pc \in {"yielded", "done"}
    /\ emitted # <<>>
    /\ Untouched(emitted[Len(emitted)].other_data)
    /\ emitted' = Rebound(emitted[Len(emitted)].data, kind)
    /\ frame' = IF emitted[Len(emitted)].data = InputDict
                THEN [frame EXCEPT !.other_data = Changed(@, kind)]
                ELSE frame
    /\ UNCHANGED <<elements, fmt, suspended, lookups, settings, pc, error, input_text, num_steps,
                   step_num, heap, step_outputs, previous_output, current_input, prompt,
                   model_value, step_output, calls>>

ConsumerAdds == ConsumerChanges("add")

ConsumerRemoves == ConsumerChanges("remove")

ConsumerRebinds == ConsumerChanges("rebind")

InitFrames ==
    /\ Init
    /\ settings \in HostSettings
    /\ frame \in HostFrames \cup {FrameOf(UpstreamChainData)}

NextFrames == Next \/ ConsumerAdds \/ ConsumerRemoves \/ ConsumerRebinds

SpecFrames == InitFrames /\ [][NextFrames]_vars

\* ------------------------------------------------------ the routing element
\* One invocation of main at a time per element; `invocation` holds the
\* locals of the one under way (pc = "evaluate") or of the last one. The
\* cache lookup and the assignment of lines 195-197 have no await between
\* them, so an invocation's compile step is one step.
BetweenInvocations == invocation.pc \in {"idle", "done", "raised"}

\* the locals of an invocation that has read its inputs
Invoked(name, f, n, code) ==
    [element |-> name, pc |-> "evaluate", frame |-> f, code |-> code, num_outputs |-> n,
     result |-> PyNone, route_id |-> "", emitted |-> <<>>, error |-> "", raised_at |-> ""]

\* the invocation ends with exception e raised at `place`
Raised(inv, e, place) == [inv EXCEPT !.pc = "raised", !.error = e, !.raised_at = place]

\* except (SyntaxError, ValueError): raise ValueError(...); any other
\* exception passes to the outer handler, which re-raises it
CompileError(outcome) ==
    IF outcome \in {"SyntaxError", "ValueError"} THEN "ValueError" ELSE outcome

\* frame is None: log, raise Exception
RoutingReceiveNone(n, code) ==
    /\ BetweenInvocations
    /\ invocation' = Raised(Invoked("routing", NoneFrame, n, code), "Exception", "input")
    /\ UNCHANGED <<chain, routing_cache, condition_cache, compiled>>

\* cache_key not in _routing_cache: compile, and cache the function if that
\* succeeds
RoutingCompile(f, n, code) ==
    /\ BetweenInvocations
    /\ ~f.is_none
    /\ RoutingKey(code, n) \notin routing_cache
    /\ LET outcome == CompileOutcome("route", code)
       IN  IF outcome = "function"
           THEN /\ routing_cache' = routing_cache \cup {RoutingKey(code, n)}
                /\ compiled' = [compiled EXCEPT !.routing[RoutingKey(code, n)] = @ + 1]
                /\ invocation' = Invoked("routing", f, n, code)
           ELSE /\ invocation' = Raised(Invoked("routing", f, n, code),
                                        CompileError(outcome), "compile")
                /\ UNCHANGED <<routing_cache, compiled>>
    /\ UNCHANGED <<chain, condition_cache>>

\* cache_key in _routing_cache: the cached function is used
RoutingCached(f, n, code) ==
    /\ BetweenInvocations
    /\ ~f.is_none
    /\ RoutingKey(code, n) \in routing_cache
    /\ invocation' = Invoked("routing", f, n, code)
    /\ UNCHANGED <<chain, routing_cache, condition_cache, compiled>>

\* getattr(ctx.outputs, route_name, None)
RouteOutputAttr(i) == i \in 1..NumRouteOutputs

\* the route the frame goes out on: route_id is reset to "route1" when an
\* output of 1..num_outputs does not exist, and route_map.get falls back to
\* route1
RouteTaken(route_id, n) ==
    IF \E i \in 1..n : ~RouteOutputAttr(i) THEN "route1"
    ELSE IF route_id \in {RouteName(i) : i \in 1..n} THEN route_id
    ELSE "route1"

\* route_func(frame), normalize_route_identifier, yield output_func(frame)
RoutingEvaluate(ret) ==
    /\ invocation.pc = "evaluate"
    /\ invocation.element = "routing"
    /\ invocation' =
          IF ret.raises
          THEN Raised(invocation, "ValueError", "evaluate")
          ELSE LET route_id == normalize_route_identifier(ret.value, invocation.num_outputs)
               IN  [invocation EXCEPT
                       !.pc = "done",
                       !.result = ret.value,
                       !.route_id = route_id,
                       !.emitted = <<[output |-> RouteTaken(route_id, invocation.num_outputs),
                                      frame |-> invocation.frame]>>]
    /\ UNCHANGED <<chain, routing_cache, condition_cache, compiled>>

\* -------------------------------------------------- the conditional element
\* frame is None: log, raise Exception
ConditionalReceiveNone(code) ==
    /\ BetweenInvocations
    /\ invocation' = Raised(Invoked("conditional", NoneFrame, 0, code), "Exception", "input")
    /\ UNCHANGED <<chain, routing_cache, condition_cache, compiled>>

\* condition_code not in _condition_cache: compile, and cache the function
\* if that succeeds
ConditionalCompile(f, code) ==
    /\ BetweenInvocations
    /\ ~f.is_none
    /\ code \notin condition_cache
    /\ LET outcome == CompileOutcome("evaluate", code)
       IN  IF outcome = "function"
           THEN /\ condition_cache' = condition_cache \cup {code}
                /\ compiled' = [compiled EXCEPT !.conditional[code] = @ + 1]
                /\ invocation' = Invoked("conditional", f, 0, code)
           ELSE /\ invocation' = Raised(Invoked("conditional", f, 0, code),
                                        CompileError(outcome), "compile")
                /\ UNCHANGED <<condition_cache, compiled>>
    /\ UNCHANGED <<chain, routing_cache>>

\* condition_code in _condition_cache: the cached function is used
ConditionalCached(f, code) ==
    /\ BetweenInvocations
    /\ ~f.is_none
    /\ code \in condition_cache
    /\ invocation' = Invoked("conditional", f, 0, code)
    /\ UNCHANGED <<chain, routing_cache, condition_cache, compiled>>

\* mutant: the false output is used whenever the result is not True itself
ConditionalEvaluateIdentity(ret) ==
    /\ invocation.pc = "evaluate"
    /\ invocation.element = "conditional"
    /\ invocation' =
          IF ret.raises \/ ret.value = BadBoolV
          THEN Raised(invocation, "ValueError", "evaluate")
          ELSE [invocation EXCEPT
                   !.pc = "done",
                   !.result = ret.value,
                   !.emitted = <<[output |-> IF ret.value = BoolV(TRUE) THEN "true" ELSE "false",
                                  frame |-> invocation.frame]>>]
    /\ UNCHANGED <<chain, routing_cache, condition_cache, compiled>>

\* evaluate_func(frame), bool(result), yield on true or false
ConditionalEvaluate(ret) ==
    /\ invocation.pc = "evaluate"
    /\ invocation.element = "conditional"
    /\ invocation' =
          IF ret.raises \/ ret.value = BadBoolV
          THEN Raised(invocation, "ValueError", "evaluate")
          ELSE [invocation EXCEPT
                   !.pc = "done",
                   !.result = ret.value,
                   !.emitted = <<[output |-> IF Truthy(ret.value) THEN "true" ELSE "false",
                                  frame |-> invocation.frame]>>]
    /\ UNCHANGED <<chain, routing_cache, condition_cache, compiled>>

\* the chain element is not run here
InitElements ==
    /\ Init
    /\ frame = NoneFrame
    /\ settings.num_steps = NumStepsMin
    /\ \A i \in PromptSteps : settings.prompt[i] = DefaultPrompt(i) /\ settings.model[i] = "local"

NextElements ==
    \/ \E n \in NumOutputsValues, code \in SourceTexts : RoutingReceiveNone(n, code)
    \/ \E f \in ElementFrames, n \in NumOutputsValues, code \in SourceTexts :
          RoutingCompile(f, n, code)
    \/ \E f \in ElementFrames, n \in NumOutputsValues, code \in SourceTexts :
          RoutingCached(f, n, code)
    \/ \E ret \in Returned(RouteValues) : RoutingEvaluate(ret)
    \/ \E code \in SourceTexts : ConditionalReceiveNone(code)
    \/ \E f \in ElementFrames, code \in SourceTexts : ConditionalCompile(f, code)
    \/ \E f \in ElementFrames, code \in SourceTexts : ConditionalCached(f, code)
    \/ \E ret \in Returned(ConditionValues) : ConditionalEvaluate(ret)

SpecElements == InitElements /\ [][NextElements]_vars

\* ------------------------------------------------ one run driven to its end
InitLive == Init /\ frame \in HostFrames

\* the host drives the generator until it is exhausted or raises, and every
\* provider request returns or raises
SpecLive == InitLive /\ [][Next]_vars /\ WF_vars(Next)

\* ------------------------------------------------- format_prompt on its own
MaxTemplateLen == 2

TemplateTokens == {"{input}", "{previous}", "w"}

RECURSIVE SeqsUpTo(_, _)
\* the sequences over S of length at most n
SeqsUpTo(S, n) ==
    IF n = 0 THEN {<<>>}
    ELSE LET shorter == SeqsUpTo(S, n - 1)
         IN  shorter \cup {Append(q, x) : q \in shorter, x \in S}

\* template: str
Templates == SeqsUpTo(TemplateTokens, MaxTemplateLen)

\* input_text: str, with and without placeholder tokens in it
InputTexts == {<<>>, <<"Hi">>, <<"{previous}">>, <<"Hi", "{input}">>}

\* previous_output: Optional[str]
PreviousOutputs == {NoText, Some(<<>>), Some(<<"out">>), Some(<<"{previous}", "out">>)}

InitFormat ==
    /\ fmt \in [template : Templates, text : InputTexts, previous : PreviousOutputs,
                 result : {<<>>}, applied : {FALSE}]
    /\ frame = NoneFrame
    /\ settings = [num_steps |-> NumStepsMin,
                   prompt |-> [i \in PromptSteps |-> DefaultPrompt(i)],
                   model |-> [i \in PromptSteps |-> "local"],
                   api_key |-> [i \in KeySteps |-> <<>>],
                   temperature |-> [i \in KeySteps |-> DefaultTemperature]]
    /\ pc = "format"
    /\ error = ""
    /\ input_text = <<>>
    /\ num_steps = 0
    /\ step_num = 0
    /\ heap = <<>>
    /\ step_outputs = 0
    /\ previous_output = NoText
    /\ current_input = <<>>
    /\ prompt = <<>>
    /\ model_value = ""
    /\ step_output = <<>>
    /\ emitted = <<>>
    /\ calls = <<>>
    /\ lookups = {}
    /\ suspended = <<>>
    /\ ElementsIdle

\* one call of format_prompt(template, input_text, previous_output)
ApplyFormat ==
    /\ pc = "format"
    /\ ~fmt.applied
    /\ fmt' = [fmt EXCEPT !.result = format_prompt(fmt.template, fmt.text, fmt.previous),
                          !.applied = TRUE]
    /\ UNCHANGED <<elements, suspended, lookups, frame, settings, pc, error, input_text, num_steps, step_num,
                   heap, step_outputs, previous_output, current_input, prompt, model_value,
                   step_output, emitted, calls>>

SpecFormat == InitFormat /\ [][ApplyFormat]_vars

\* ------------------------------------------------- a logging sink that fails
\* `await ctx.logger.log(...)` raises. Every log call of main is inside its
\* try block, whose handler logs once more and re-raises.

\* the first log calls, before the loop, raise
LogFailsAtStart ==
    /\ pc = "start"
    /\ pc' = "raised"
    /\ error' = "LogError"
    /\ LoopLocalsUnchanged
    /\ UNCHANGED <<elements, fmt, suspended, lookups, frame, settings, input_text, emitted, calls>>

\* mutant: the handler logs and does not re-raise
LogFailsInStepSwallowed ==
    /\ pc = "loop"
    /\ LoopHasNext
    /\ pc' = "done"
    /\ error' = "LogError"
    /\ \E looked \in {{}, {step_num}} : lookups' = lookups \cup looked
    /\ LoopLocalsUnchanged
    /\ UNCHANGED <<elements, fmt, suspended, frame, settings, input_text, emitted, calls>>

\* a log call of the loop body raises before the step has an output: "Executing
\* step", the unconfigured warning, the prompt line or the local-LLM line
LogFailsInStep ==
    /\ pc = "loop"
    /\ LoopHasNext
    /\ pc' = "raised"
    /\ error' = "LogError"
    /\ \E looked \in {{}, {step_num}} : lookups' = lookups \cup looked
    /\ LoopLocalsUnchanged
    /\ UNCHANGED <<elements, fmt, suspended, frame, settings, input_text, emitted, calls>>

\* the provider answered, the "response received" log raises inside call_llm's
\* try block, `except Exception` catches it, logs and returns ""
CallProviderLogSwallowed(outcome) ==
    /\ pc = "call"
    /\ outcome.raises = ""
    /\ calls' = Append(calls, [step |-> step_num, backend |-> model_value,
                               prompt |-> prompt,
                               api_key |-> ApiKey(step_num),
                               temperature |-> Temperature(step_num),
                               raised |-> FALSE, text |-> outcome.text])
    /\ step_output' = OrNoOutput(<<>>, step_num)
    /\ pc' = "record"
    /\ UNCHANGED <<elements, fmt, suspended, lookups, frame, settings, error, input_text, num_steps,
                   step_num, heap, step_outputs, previous_output, current_input, prompt,
                   model_value, emitted>>

\* the log call of an except branch of call_llm raises, or the empty-output
\* warning of main does: the exception leaves call_llm or main's loop body
CallProviderLogRaises(outcome) ==
    /\ pc = "call"
    /\ calls' = Append(calls, [step |-> step_num, backend |-> model_value,
                               prompt |-> prompt,
                               api_key |-> ApiKey(step_num),
                               temperature |-> Temperature(step_num),
                               raised |-> outcome.raises # "", text |-> outcome.text])
    /\ pc' = "raised"
    /\ error' = "LogError"
    /\ UNCHANGED <<elements, fmt, suspended, lookups, frame, settings, input_text, num_steps,
                   step_num, heap, step_outputs, previous_output, current_input, prompt,
                   model_value, step_output, emitted>>

\* "Chain execution complete" raises before the final frame is yielded
LogFailsAtFinal ==
    /\ pc = "final"
    /\ pc' = "raised"
    /\ error' = "LogError"
    /\ LoopLocalsUnchanged
    /\ UNCHANGED <<elements, fmt, suspended, lookups, frame, settings, input_text, emitted, calls>>

NextLog ==
    \/ Next
    \/ LogFailsAtStart
    \/ LogFailsInStep
    \/ \E outcome \in Outcomes : CallProviderLogSwallowed(outcome)
    \/ \E outcome \in Outcomes : CallProviderLogRaises(outcome)
    \/ LogFailsAtFinal

SpecLog == Init /\ [][NextLog]_vars

\* =================================================================== claims
\* what the executor's running history holds
History == IF step_outputs = 0 THEN <<>> ELSE heap[step_outputs]

\* the list a frame's chain_history shows when it is read now
Deref(v) == heap[v.val]

StepFrameCount == Cardinality({k \in 1..Len(emitted) : emitted[k].channel = "step"})

FinalSeen == \E k \in 1..Len(emitted) : emitted[k].channel = "final"

LastEmitted == emitted[Len(emitted)]

IsPrefix(a, b) == Len(a) <= Len(b) /\ SubSeq(b, 1, Len(a)) = a

OnlyWhitespace(t) == \A i \in 1..Len(t) : t[i] = " "

\* step k has no prompt setting, or an empty one
Unconfigured(k) == k \notin 1..NumPromptSettings \/ settings.prompt[k] = <<>>

\* the smallest unconfigured step index in 1..N, N + 1 when there is none
FirstUnconfigured(N) ==
    IF \E k \in 1..N : Unconfigured(k)
    THEN CHOOSE k \in 1..N : Unconfigured(k) /\ \A j \in 1..(k - 1) : ~Unconfigured(j)
    ELSE N + 1

\* the chain has passed the input checks
ChainBegun == step_outputs # 0

\* ---- C1
EmissionOrder ==
    /\ \A k \in 1..Len(emitted) :
          IF emitted[k].channel = "step"
          THEN emitted[k].index = k
          ELSE emitted[k].channel = "final" /\ k = Len(emitted)
    /\ pc = "done" => (emitted # <<>> /\ LastEmitted.channel = "final")

\* C1: the frames emitted by an execution that does not raise are step frames
\* on step1, step2, ... with no index skipped or repeated, then exactly one
\* final frame; emissions are only ever added at the end, and none after the
\* final frame.
C1_EmissionOrder ==
    /\ []EmissionOrder
    /\ [][IsPrefix(emitted, emitted') /\ Len(emitted') <= Len(emitted) + 1]_vars
    /\ [][FinalSeen => emitted' = emitted]_vars

C1_Witness == pc = "done" /\ Len(emitted) = 4 /\ settings.num_steps = 3

\* ---- C2
\* C2: the number of step frames never exceeds num_steps, and a finished
\* execution emitted exactly k - 1 of them, k the first step of 1..N with an
\* empty or missing prompt (N of them when every step of 1..N is configured).
C2_StepFrameCount ==
    /\ StepFrameCount <= settings.num_steps
    /\ pc = "done" => StepFrameCount = FirstUnconfigured(settings.num_steps) - 1

C2_Witness ==
    /\ pc = "done"
    /\ settings.num_steps = 4
    /\ settings.prompt[3] = <<>>
    /\ StepFrameCount = 2

\* ---- C3
HaltedAtUnconfigured ==
    \A i \in 1..settings.num_steps :
        (ChainBegun /\ Unconfigured(i)) =>
            /\ step_num <= i
            /\ \A k \in 1..Len(History) : History[k].step < i
            /\ \A k \in 1..Len(emitted) : emitted[k].channel = "step" => emitted[k].index < i
            /\ \A k \in 1..Len(calls) : calls[k].step < i
            /\ pc # "raised" /\ error = ""
            /\ pc = "done" => LastEmitted.channel = "final"

\* C3: a step of 1..num_steps with an empty or missing prompt halts the chain:
\* no record, no step frame and no provider request exists for it or for a
\* later step, nothing is raised, and from the halt the executor goes straight
\* to the final frame.
C3_HaltAtUnconfigured ==
    /\ []HaltedAtUnconfigured
    /\ [][(pc = "loop" /\ step_num <= settings.num_steps /\ Unconfigured(step_num))
            => (pc' = "final" /\ emitted' = emitted /\ calls' = calls /\ heap' = heap)]_vars
    /\ [][pc = "final"
            => (pc' = "done" /\ Len(emitted') = Len(emitted) + 1
                /\ emitted'[Len(emitted')].channel = "final")]_vars

C3_Witness ==
    /\ pc = "done"
    /\ settings.num_steps = 4
    /\ settings.prompt[2] = <<>>
    /\ settings.prompt[3] # <<>>
    /\ Len(History) = 1
    /\ Len(emitted) = 2

\* ---- C4
\* C4: the final frame has chain_complete true, chain_steps the declared
\* num_steps, chain_history the records of the steps that completed (one per
\* step frame, in order, with that frame's prompt and output) and
\* chain_final_output the last step frame's output, or the extracted input
\* text when no step completed.
C4_FinalFrame ==
    pc = "done" =>
        LET f == LastEmitted.other_data
            h == Deref(f.chain_history)
        IN  /\ LastEmitted.channel = "final"
            /\ f.chain_complete = BoolV(TRUE)
            /\ f.chain_steps = IntV(settings.num_steps)
            /\ Len(h) = StepFrameCount
            /\ \A k \in 1..Len(h) :
                  /\ h[k].step = k
                  /\ StrV(h[k].output) = emitted[k].other_data.chain_output
                  /\ StrV(h[k].prompt) = emitted[k].other_data.chain_prompt
            /\ f.chain_final_output =
                  IF StepFrameCount = 0 THEN StrV(input_text)
                  ELSE emitted[StepFrameCount].other_data.chain_output

C4_Witness ==
    /\ pc = "done"
    /\ settings.num_steps = 3
    /\ settings.prompt[2] = <<>>
    /\ LastEmitted.other_data.chain_steps = IntV(3)
    /\ Len(Deref(LastEmitted.other_data.chain_history)) = 1

\* ---- C5
HistoryCounts ==
    /\ pc = "yielded" => Len(History) = step_num
    /\ pc = "loop" => Len(History) = step_num - 1
    /\ \A k \in 1..Len(History) : History[k].step = k

\* C5: right after step i completes the history holds exactly i records with
\* step indexes 1..i in order, and every later history has every earlier one
\* as a prefix.
C5_HistoryAppendOnly ==
    /\ []HistoryCounts
    /\ [][IsPrefix(History, History')]_vars

C5_Witness == pc = "yielded" /\ step_num = 3 /\ Len(History) = 3

\* ---- C6
\* C6: the chain_history read through the step frame of step i holds exactly
\* i records at every later point of the execution.
C6_StepFrameHistoryIsSnapshot ==
    \A k \in 1..Len(emitted) :
        emitted[k].channel = "step" =>
            Len(Deref(emitted[k].other_data.chain_history)) = emitted[k].index

\* ---- C7
\* C7: a None frame, or extracted text that is blank after trimming, ends the
\* execution with an error raised to the caller, with no frame emitted and no
\* provider request issued.
C7_InputError ==
    (pc # "start" /\ (frame.is_none \/ OnlyWhitespace(input_text))) =>
        /\ pc = "raised"
        /\ error # ""
        /\ emitted = <<>>
        /\ calls = <<>>

C7_Witness == pc = "raised" /\ ~frame.is_none /\ input_text = <<" ">>

\* ---- C8
\* the non-blank user text of the frame's "api" list, <<>> when there is none
ApiSourceText ==
    IF "api" \in DOMAIN frame.other_data /\ frame.other_data["api"].type = "list"
    THEN ApiText(frame.other_data["api"].val)
    ELSE <<>>

\* C8 as stated: a frame whose "message" is present but blank and whose "api"
\* list has non-blank user text runs the chain on the api text.
C8_BlankMessageFallsBackToApi ==
    ( /\ pc # "start"
      /\ ~frame.is_none
      /\ "message" \in DOMAIN frame.other_data
      /\ OnlyWhitespace(PyStr(frame.other_data["message"]))
      /\ ~OnlyWhitespace(ApiSourceText) )
    => (pc # "raised" /\ input_text = ApiSourceText)

\* C8 amended: the "api" list is read only when the frame has no "message"
\* key; the input error is raised exactly when the one source so selected is
\* blank, so a present but blank "message" fails even beside non-blank api text.
C8_MessageShadowsApi ==
    (pc # "start" /\ ~frame.is_none) =>
        LET source == IF "message" \in DOMAIN frame.other_data
                      THEN PyStr(frame.other_data["message"])
                      ELSE ApiSourceText
        IN  /\ input_text = source
            /\ (pc = "raised") <=> OnlyWhitespace(source)
            /\ (error = "ValueError") <=> OnlyWhitespace(source)

C8_Witness ==
    /\ pc = "raised"
    /\ error = "ValueError"
    /\ ~frame.is_none
    /\ "message" \in DOMAIN frame.other_data
    /\ ~OnlyWhitespace(ApiSourceText)

\* ---- C9
MarkerNoOutput(i) == <<"[Step", Digits[i], "- no output]">>

FailureRecovered ==
    \A c \in 1..Len(calls) :
        calls[c].raised =>
            LET i == calls[c].step
            IN  /\ pc # "raised" /\ error = ""
                /\ (pc = "record" /\ step_num = i) => step_output = MarkerNoOutput(i)
                /\ Len(History) >= i =>
                      /\ History[i].output = MarkerNoOutput(i)
                      /\ Len(emitted) >= i
                      /\ emitted[i].channel = "step" /\ emitted[i].index = i
                      /\ emitted[i].other_data.chain_output = StrV(MarkerNoOutput(i))
                /\ Len(History) > i =>
                      History[i + 1].prompt =
                          format_prompt(settings.prompt[i + 1], MarkerNoOutput(i),
                                        Some(MarkerNoOutput(i)))
                /\ pc = "done" =>
                      /\ LastEmitted.channel = "final"
                      /\ StepFrameCount = FirstUnconfigured(settings.num_steps) - 1

\* C9: a provider request that raises is not propagated: the step's output is
\* the no-output marker, its record and step frame are produced, and the later
\* steps and the final frame follow as after any step.
C9_ProviderFailureRecovered ==
    /\ []FailureRecovered
    /\ [][pc = "call" => pc' = "record"]_vars

C9_Witness ==
    /\ pc = "done"
    /\ \E c \in 1..Len(calls) : calls[c].raised /\ calls[c].step < StepFrameCount

\* ---- C10
\* C10: every recorded output, every step frame's chain_output, previous_output
\* once set and the final frame's chain_final_output are non-empty strings.
C10_OutputsNonEmpty ==
    /\ \A k \in 1..Len(History) : History[k].output # <<>>
    /\ previous_output.some => previous_output.text # <<>>
    /\ \A k \in 1..Len(emitted) :
          IF emitted[k].channel = "step"
          THEN /\ emitted[k].other_data.chain_output.type = "str"
               /\ emitted[k].other_data.chain_output.val # <<>>
          ELSE /\ emitted[k].other_data.chain_final_output.type = "str"
               /\ emitted[k].other_data.chain_final_output.val # <<>>

C10_Witness ==
    /\ pc = "done"
    /\ \E c \in 1..Len(calls) : ~calls[c].raised /\ calls[c].text = <<>>

\* ---- C11
MarkerPendingLocal(i) == <<"[Step", Digits[i], "output - requires LLM element]">>

\* C11: a local step issues no provider request and its output is the
\* pending-local marker of its index, which is non-empty and is no step's
\* no-output marker; with input "Hello", num_steps = 1 and step 1 local, the
\* emissions are one step frame with that marker, then a final frame whose
\* chain_final_output is the same marker.
C11_LocalStepMarker ==
    /\ \A k \in 1..Len(History) :
          History[k].model = "local" =>
              /\ History[k].output = MarkerPendingLocal(k)
              /\ History[k].output # <<>>
              /\ \A j \in 1..NumStepsMax : History[k].output # MarkerNoOutput(j)
              /\ \A c \in 1..Len(calls) : calls[c].step # k
    /\ ( /\ pc = "done"
         /\ input_text = <<"Hello">>
         /\ settings.num_steps = 1
         /\ settings.prompt[1] # <<>>
         /\ settings.model[1] = "local" )
       => /\ Len(emitted) = 2
          /\ emitted[1].channel = "step" /\ emitted[1].index = 1
          /\ emitted[1].other_data.chain_output = StrV(MarkerPendingLocal(1))
          /\ emitted[2].channel = "final"
          /\ emitted[2].other_data.chain_final_output = StrV(MarkerPendingLocal(1))
          /\ calls = <<>>

C11_Witness ==
    /\ pc = "done"
    /\ input_text = <<"Hello">>
    /\ settings.num_steps = 1
    /\ settings.model[1] = "local"
    /\ Len(emitted) = 2

\* ---- C12
\* the steps that have completed on a hosted backend
CompletedHosted == {k \in 1..Len(History) : History[k].model \in {"openai", "anthropic"}}

\* C12: no step has more than one provider request, every request belongs to
\* a configured step on a hosted backend that was reached before any halt, and
\* between steps the number of requests is the number of completed hosted steps.
C12_OneRequestPerStep ==
    /\ \A c, d \in 1..Len(calls) : c < d => calls[c].step < calls[d].step
    /\ \A c \in 1..Len(calls) :
          /\ calls[c].backend \in {"openai", "anthropic"}
          /\ calls[c].step \in 1..NumPromptSettings
          /\ settings.model[calls[c].step] = calls[c].backend
          /\ calls[c].step < FirstUnconfigured(settings.num_steps)
    /\ pc \in {"loop", "yielded", "final", "done"} => Len(calls) = Cardinality(CompletedHosted)

C12_Witness ==
    /\ pc = "done"
    /\ Len(calls) = 1
    /\ calls[1].raised
    /\ Len(History) >= 2

\* ---- C13
StepOverlayKeys == {"chain_step", "chain_output", "chain_prompt", "chain_model", "chain_history"}

FinalOverlayKeys == {"chain_final_output", "chain_steps", "chain_history", "chain_complete"}

OverlayKeys == StepOverlayKeys \cup FinalOverlayKeys

SameValue(a, b) == a.type = b.type /\ a.val = b.val

\* the input's keys are all in every emitted frame, and those outside the
\* eight overlay keys keep their input value
InputKeysKept ==
    \A e \in 1..Len(emitted) :
        /\ DOMAIN frame.other_data \subseteq DOMAIN emitted[e].other_data
        /\ \A k \in DOMAIN frame.other_data \ OverlayKeys :
              SameValue(emitted[e].other_data[k], frame.other_data[k])

\* C13 as stated: besides InputKeysKept, an overlay key the input already
\* holds carries the chain's value in every emitted frame (the upstream values
\* of the input frames are ones this chain never writes).
C13_OverlayKeysAlwaysReplaced ==
    /\ InputKeysKept
    /\ \A e \in 1..Len(emitted) :
          \A k \in DOMAIN frame.other_data \cap OverlayKeys :
              ~SameValue(emitted[e].other_data[k], frame.other_data[k])

\* the keys the overlay of an emitted frame sets
OwnOverlayKeys(e) == IF e.channel = "step" THEN StepOverlayKeys ELSE FinalOverlayKeys

\* C13 amended: every input key is in every emitted frame; a key keeps its
\* input value unless the frame's own overlay sets it (step frame: chain_step,
\* chain_output, chain_prompt, chain_model, chain_history; final frame:
\* chain_final_output, chain_steps, chain_history, chain_complete), and then
\* the frame holds the chain's value.
C13_OwnOverlayWins ==
    \A e \in 1..Len(emitted) :
        /\ DOMAIN frame.other_data \subseteq DOMAIN emitted[e].other_data
        /\ \A k \in DOMAIN frame.other_data \ OwnOverlayKeys(emitted[e]) :
              SameValue(emitted[e].other_data[k], frame.other_data[k])
        /\ emitted[e].channel = "step" =>
              /\ emitted[e].other_data.chain_step = IntV(emitted[e].index)
              /\ emitted[e].other_data.chain_output.type = "str"
              /\ emitted[e].other_data.chain_output.val \in
                    {MarkerPendingLocal(emitted[e].index), MarkerNoOutput(emitted[e].index)}
                    \cup {o.text : o \in Outcomes}
        /\ emitted[e].channel = "final" =>
              /\ emitted[e].other_data.chain_complete = BoolV(TRUE)
              /\ emitted[e].other_data.chain_steps = IntV(settings.num_steps)

C13_Witness ==
    /\ pc = "done"
    /\ "chain_step" \in DOMAIN frame.other_data
    /\ Len(emitted) >= 2
    /\ emitted[1].other_data.chain_step = IntV(1)
    /\ LastEmitted.other_data.chain_step = IntV(7)

\* ---- C14
\* an exception that is neither of the two input errors
UnexpectedError == error \notin {"", "Exception", "ValueError"}

C17_LoggingIsObservational ==
    /\ ~UnexpectedError
    /\ \A c \in 1..Len(calls) :
          (~calls[c].raised /\ calls[c].text # <<>> /\ Len(History) >= calls[c].step)
              => History[calls[c].step].output = calls[c].text

\* ---- C15
\* C15: with num_steps = N in 1..10 and every prompt of steps 1..N that can be
\* set non-empty, the chain runs all N steps and emits N step frames.
C15_TenConfigurableSteps ==
    ( /\ pc = "done"
      /\ \A i \in 1..settings.num_steps :
            i \in 1..NumPromptSettings => settings.prompt[i] # <<>> )
    => StepFrameCount = settings.num_steps

\* ---- C16
\* min(max(n, 1), 10)
Clamp(n) == IF n < NumStepsMin THEN NumStepsMin
            ELSE IF n > NumStepsMax THEN NumStepsMax ELSE n

\* the configuration is looked up only for indexes in 1..min(max(N,1),10) and
\* never above the declared count
LookupsBounded ==
    /\ lookups \subseteq 1..Clamp(settings.num_steps)
    /\ lookups \subseteq 1..settings.num_steps

RECURSIVE EachToken(_, _, _, _)
\* the first k tokens of s, each occurrence of tok among them replaced by `by`
EachToken(s, tok, by, k) ==
    IF k = 0 THEN <<>>
    ELSE EachToken(s, tok, by, k - 1) \o (IF s[k] = tok THEN by ELSE <<s[k]>>)

\* s with every occurrence of tok replaced by `by`
Substituted(s, tok, by) == EachToken(s, tok, by, Len(s))

Occurs(tok, s) == \E k \in 1..Len(s) : s[k] = tok

NoPrevious(previous) == ~previous.some \/ previous.text = <<>>

\* C18: with previous None or empty every {previous} is replaced by the input
\* text, and the result equals that of format_prompt(template, input, input);
\* with a non-empty previous every {previous} is replaced by previous.
C18_FirstStepDegradation ==
    fmt.applied =>
        LET withInput == Substituted(fmt.template, "{input}", fmt.text)
        IN  /\ NoPrevious(fmt.previous) =>
                  /\ fmt.result = Substituted(withInput, "{previous}", fmt.text)
                  /\ fmt.result = format_prompt(fmt.template, fmt.text, Some(fmt.text))
            /\ ~NoPrevious(fmt.previous) =>
                  fmt.result = Substituted(withInput, "{previous}", fmt.previous.text)

C18_Witness ==
    /\ fmt.applied
    /\ fmt.previous = NoText
    /\ fmt.template = <<"{input}", "{previous}">>
    /\ fmt.text = <<"Hi">>
    /\ fmt.result = <<"Hi", "Hi">>

\* ---- C19
RECURSIVE Rendered(_, _, _, _)
\* the first k template tokens rendered: {input} -> text, {previous} -> prev,
\* any other token itself
Rendered(template, text, prev, k) ==
    IF k = 0 THEN <<>>
    ELSE Rendered(template, text, prev, k - 1)
         \o (IF template[k] = "{input}" THEN text
             ELSE IF template[k] = "{previous}" THEN prev
             ELSE <<template[k]>>)

\* C19: each {input} of the template is replaced by input_text verbatim, the
\* inserted text is not rescanned, and every other token is unchanged.
C19_InputInsertedVerbatim ==
    fmt.applied =>
        fmt.result = Rendered(fmt.template, fmt.text,
                              IF NoPrevious(fmt.previous) THEN fmt.text ELSE fmt.previous.text,
                              Len(fmt.template))

\* ---- C20
\* the history of run r is a list of its own
OwnList(r, other) ==
    r.step_outputs # 0 => r.step_outputs # other.step_outputs

\* the records of run r are those of its own steps, computed from its own
\* input text and its own earlier outputs
OwnRecords(r) ==
    r.step_outputs # 0 =>
        LET h == heap[r.step_outputs]
        IN  /\ r.input_text = ExtractInputText(r.frame.other_data)
            /\ Len(h) \in {r.step_num - 1, r.step_num}
            /\ Len(h) <= settings.num_steps
            /\ \A k \in 1..Len(h) :
                  /\ h[k].step = k
                  /\ h[k].model = settings.model[k]
                  /\ h[k].prompt = format_prompt(settings.prompt[k],
                                                 IF k = 1 THEN r.input_text ELSE h[k - 1].output,
                                                 IF k = 1 THEN NoText ELSE Some(h[k - 1].output))
                  /\ IF h[k].model = "local"
                     THEN h[k].output = LocalMarker(k)
                     ELSE \E c \in 1..Len(r.calls) :
                            /\ r.calls[c].step = k
                            /\ r.calls[c].prompt = h[k].prompt
                            /\ h[k].output = IF r.calls[c].raised \/ r.calls[c].text = <<>>
                                             THEN NoOutputMarker(k) ELSE r.calls[c].text

\* the frames run r emitted are built from its own input frame and history
OwnFrames(r) ==
    \A j \in 1..Len(r.emitted) :
        LET e == r.emitted[j]
            h == heap[r.step_outputs]
        IN  /\ e.other_data.chain_history = RefV(r.step_outputs)
            /\ \A key \in DOMAIN r.frame.other_data \ OwnOverlayKeys(e) :
                  e.other_data[key] = r.frame.other_data[key]
            /\ DOMAIN e.other_data = DOMAIN r.frame.other_data \cup OwnOverlayKeys(e)
            /\ e.channel = "step" =>
                  /\ e.index = j
                  /\ e.other_data.chain_step = IntV(j)
                  /\ e.other_data.chain_output = StrV(h[j].output)
                  /\ e.other_data.chain_prompt = StrV(h[j].prompt)
            /\ e.channel = "final" =>
                  /\ j = Len(h) + 1
                  /\ e.other_data.chain_final_output =
                        StrV(IF h = <<>> THEN r.input_text ELSE h[Len(h)].output)
                  /\ e.other_data.chain_steps = IntV(settings.num_steps)

Independent(r, other) == OwnList(r, other) /\ OwnRecords(r) /\ OwnFrames(r)

\* C20: of two runs the host runs one after the other or interleaved, each has
\* a history and emitted frames made only of its own steps, determined by its
\* own input frame, the settings and its own provider responses.
C20_ExecutionsIndependent ==
    suspended # <<>> =>
        /\ Independent(RunningRun, suspended[1])
        /\ Independent(suspended[1], RunningRun)

C20_Witness ==
    /\ suspended # <<>>
    /\ pc = "done"
    /\ suspended[1].pc = "done"
    /\ input_text # suspended[1].input_text
    /\ Len(emitted) = MaxHostSteps + 1
    /\ Len(suspended[1].emitted) = MaxHostSteps + 1
    /\ \E c \in 1..Len(calls) : ~calls[c].raised /\ calls[c].text # <<>>

\* ---- C21
\* C21: the record of step i is appended and the step frame of step i is
\* handed to the caller before the prompt of step i+1 is rendered or its
\* backend call starts; backend calls are made one at a time in step order,
\* and while the caller holds frame i nothing of step i+1 has happened.
C21_StrictlySequential ==
    /\ pc \in {"call", "record"} =>
          /\ Len(History) = step_num - 1
          /\ StepFrameCount = step_num - 1
          /\ \A k \in 1..Len(emitted) : emitted[k].index = k
    /\ pc = "yielded" =>
          /\ Len(History) = step_num
          /\ StepFrameCount = step_num
          /\ LastEmitted.index = step_num
          /\ prompt = History[step_num].prompt
          /\ \A c \in 1..Len(calls) : calls[c].step <= step_num
    /\ \A c, d \in 1..Len(calls) : c < d => calls[c].step < calls[d].step
    /\ \A c \in 1..Len(calls) : calls[c].step <= Len(History) + 1

C21_Witness ==
    /\ pc = "call"
    /\ step_num = 3
    /\ StepFrameCount = 2
    /\ Len(History) = 2

C24_StepFrameMatchesLastRecord ==
    pc = "yielded" =>
        LET e == LastEmitted
            h == Deref(e.other_data.chain_history)
            last == h[Len(h)]
        IN  /\ e.channel = "step"
            /\ e.index = step_num
            /\ e.other_data.chain_step = IntV(step_num)
            /\ h # <<>>
            /\ last.step = step_num
            /\ e.other_data.chain_output = StrV(last.output)
            /\ e.other_data.chain_prompt = StrV(last.prompt)
            /\ e.other_data.chain_model = StrV(<<last.model>>)

C24_Witness ==
    /\ pc = "yielded"
    /\ step_num = 2
    /\ frame.other_data = UpstreamChainData
    /\ LastEmitted.other_data.chain_step = IntV(2)
    /\ LastEmitted.other_data.chain_output = StrV(History[2].output)

\* ---- C25
\* the steps a finished run did not take although declared
NotTaken == (Len(History) + 1)..settings.num_steps

\* C25: a step without a model, api-key or temperature setting runs with
\* backend local, credential "" and temperature 0.7; a missing optional
\* setting never halts the chain, only a missing or empty prompt does.
C25_DefaultsForMissingSettings ==
    /\ \A c \in 1..Len(calls) :
          LET k == calls[c].step
          IN  /\ calls[c].backend = settings.model[k]
              /\ k \in 1..NumKeySettings =>
                    /\ calls[c].api_key = settings.api_key[k]
                    /\ calls[c].temperature = settings.temperature[k]
              /\ k \notin 1..NumKeySettings =>
                    /\ calls[c].api_key = <<>>
                    /\ calls[c].temperature = DefaultTemperature
    /\ \A k \in 1..Len(History) :
          History[k].model = IF k \in DOMAIN settings.model THEN settings.model[k] ELSE "local"
    /\ (pc = "done" /\ NotTaken # {}) => Unconfigured(Len(History) + 1)

C25_Witness ==
    /\ pc = "done"
    /\ settings.num_steps = 5
    /\ Len(History) = 5
    /\ \E c \in 1..Len(calls) :
          /\ calls[c].step = 4
          /\ calls[c].api_key = <<>>
          /\ calls[c].temperature = DefaultTemperature
          /\ ~calls[c].raised

\* ---- C26
Terminated == pc \in {"done", "raised"}

\* C26: every execution ends, after at most num_steps iterations of the loop,
\* in exactly one of two outcomes: the final frame was emitted, or an
\* exception went to the caller and no final frame was emitted.
C26_TerminatesOneOutcome ==
    /\ <>Terminated
    /\ [](pc = "done" => (FinalSeen /\ error = ""))
    /\ [](pc = "raised" => (~FinalSeen /\ error # ""))
    /\ [](/\ Cardinality(lookups) <= settings.num_steps
          /\ Len(History) <= settings.num_steps
          /\ ChainBegun => step_num <= settings.num_steps + 1)
    /\ [][Terminated => UNCHANGED vars]_vars

C26_Witness ==
    /\ pc = "done"
    /\ settings.num_steps = NumPromptSettings
    /\ Cardinality(lookups) = NumPromptSettings
    /\ FinalSeen

\* ---- C23
\* the dicts of the emitted frames are objects of their own: none is the
\* input frame's dict and no two are the same object
DictsDistinct ==
    \A j, k \in 1..Len(emitted) :
        /\ emitted[j].data # InputDict
        /\ j # k => emitted[j].data # emitted[k].data

\* C23: the input frame's other_data is never modified, and the other_data
\* of the input frame, of each step frame and of the final frame are distinct
\* objects: a top-level change made in one of them, by the executor or by a
\* consumer between emissions, shows in no other.
C23_TopLevelDataNotShared ==
    /\ []DictsDistinct
    /\ [][frame' = frame]_vars
    /\ [][\A j \in 1..Len(emitted) :
             emitted'[j] # emitted[j] =>
                 \A k \in 1..Len(emitted) : k # j => emitted'[k] = emitted[k]]_vars

C23_Witness ==
    /\ pc = "done"
    /\ Len(emitted) = 3
    /\ "seen" \in DOMAIN emitted[1].other_data
    /\ "chain_history" \notin DOMAIN emitted[2].other_data
    /\ "chain_history" \in DOMAIN emitted[3].other_data
    /\ emitted[3].other_data.chain_history = PyNone
    /\ frame.other_data = UpstreamChainData

\* ---- C27
RoutingDone == invocation.element = "routing" /\ invocation.pc = "done"

\* route1 .. route{n}
RoutesUpTo(n) == {RouteNames[k] : k \in 1..n}

C28_BooleanRoutes ==
    (RoutingDone /\ invocation.result.type = "bool" /\ invocation.num_outputs >= 2) =>
        invocation.route_id = IF invocation.result.val THEN "route1" ELSE "route2"

\* ---- C29
\* the keys compiled successfully so far
CompiledKeys(cache_name) == {k \in DOMAIN compiled[cache_name] : compiled[cache_name][k] >= 1}

\* C29: a key is compiled at most once, a failed compilation leaves the cache
\* unchanged and raises ValueError, no entry is evicted or replaced, and the
\* cache size is the number of distinct keys that compiled successfully.
C29_CompileCache ==
    /\ [](/\ \A k \in DOMAIN compiled.routing : compiled.routing[k] <= 1
          /\ \A c \in DOMAIN compiled.conditional : compiled.conditional[c] <= 1
          /\ routing_cache = CompiledKeys("routing")
          /\ condition_cache = CompiledKeys("conditional")
          /\ Cardinality(routing_cache) = Cardinality(CompiledKeys("routing"))
          /\ Cardinality(condition_cache) = Cardinality(CompiledKeys("conditional")))
    /\ [](invocation.raised_at = "compile" => invocation.error = "ValueError")
    /\ [][/\ routing_cache \subseteq routing_cache'
          /\ condition_cache \subseteq condition_cache']_vars
    /\ [][invocation'.raised_at = "compile" =>
             (routing_cache' = routing_cache /\ condition_cache' = condition_cache)]_vars

\* ---- C30
ConditionalInvoked == invocation.element = "conditional"

\* the values bool() maps to False
FalsyValues == {BoolV(FALSE), IntV(0), FloatV(0), StrV(<<>>), ListV(<<>>), PyNone}

\* C30: an invocation of the conditional element either emits the unchanged
\* input frame on exactly one of true / false, true exactly when the result is
\* truthy, or (frame None, compilation fails, evaluation raises) emits nothing
\* and propagates an error; never on both outputs.
C30_OneOutputOrError ==
    ConditionalInvoked =>
        /\ invocation.pc = "done" =>
              /\ invocation.error = ""
              /\ ~invocation.frame.is_none
              /\ invocation.code \in condition_cache
              /\ Len(invocation.emitted) = 1
              /\ invocation.emitted[1].frame = invocation.frame
              /\ invocation.emitted[1].output \in {"true", "false"}
              /\ invocation.emitted[1].output = "true" <=> invocation.result \notin FalsyValues
        /\ invocation.pc = "raised" =>
              /\ invocation.error # ""
              /\ invocation.emitted = <<>>
              /\ invocation.raised_at \in {"input", "compile", "evaluate"}
              /\ invocation.raised_at = "input" <=> invocation.frame.is_none
              /\ invocation.raised_at = "compile" => invocation.code \notin condition_cache
        /\ invocation.pc = "evaluate" => invocation.emitted = <<>>

C30_Witness ==
    /\ ConditionalInvoked
    /\ invocation.pc = "done"
    /\ invocation.result = ListV(<<IntV(0)>>)
    /\ invocation.emitted = <<[output |-> "true", frame |-> invocation.frame]>>
    /\ compiled.conditional[invocation.code] = 1

====
